---- MODULE Spec2Model ----
(***************************************************************************)
(* A model of three adapters of the repository:                            *)
(*   - LogLevelCliContribution and BunyanLoggerServer                      *)
(*       (packages/core/src/node/bunyan-logger-server.ts),                 *)
(*   - QuickFileOpenService                                                *)
(*       (packages/file-search/src/browser/quick-file-open.ts),            *)
(*   - DocumentWatcher (packages/editorconfig, document-watcher.ts).       *)
(* Each adapter has its own specification over the shared variables; the   *)
(* variables of the other adapters stay at their initial values.           *)
(***************************************************************************)
EXTENDS Integers, Sequences, FiniteSets, TLC

VARIABLES
    \* LogLevelCliContribution
    cliArgs,            \* the yargs.Arguments handed to setArguments
    cliPc,              \* "start" before setArguments, "done" after it
    cliError,           \* message of the Error setArguments threw, or <<>>
    defaultLogLevel,    \* LogLevelCliContribution.defaultLogLevel
    logLevels,          \* LogLevelCliContribution.logLevels (name -> LogLevel)
    \* BunyanLoggerServer
    loggers,            \* Map<string, bunyan>: name -> the bunyan logger's level
    client,             \* ILoggerClient | undefined
    call,               \* the most recent call of the server and its outcome
    notified,           \* change notifications emitted by that call, in order
    backend,            \* messages that call forwarded to bunyan, in order
    \* QuickFileOpenService
    rootPc,             \* "pending" until workspaceService.root has resolved
    wsRoot,             \* FileStat | undefined (here: the root's uri)
    showIgnoredFiles,
    opened,
    ui,                 \* what the last open() asked of the QuickOpenService
    initialToken,       \* the token of the first cancelIndicator: cancelled?
    sessions,           \* one record per onType call that passed the root test
    shown,              \* the session of the last acceptor invocation (0: none)
    \* DocumentWatcher and the MonacoEditor it works on
    properties,         \* the KnownProps being applied
    lines,              \* the text model's lines
    cursor,             \* editor.cursor
    insertSpaces,       \* text model option
    tabSize,            \* text model option
    eol,                \* the text model's end of line sequence
    isCurrent,          \* editorManager.currentEditor.editor === editor
    edPc,               \* "start" before applyProperties, "done" after it
    calls,              \* the ensure* methods run, in order
    commands,           \* the commands executed through the CommandService
    edits,              \* the edit operations applied to the text model
    configurations,     \* DocumentWatcher.configurations (file -> KnownProps)
    pending,            \* getConfig requests that have not settled yet
    hasRoot,            \* the workspace server has a root
    created,            \* onCreated has fired for the editor
    errors              \* exceptions thrown and rejections nobody handled

cliVars == <<cliArgs, cliPc, cliError, defaultLogLevel, logLevels>>
serverVars == <<loggers, client, call, notified, backend>>
quickVars ==
    <<rootPc, wsRoot, showIgnoredFiles, opened, ui, initialToken, sessions,
      shown>>
watcherVars == <<configurations, pending, hasRoot, created, errors>>
editorVars ==
    <<properties, lines, cursor, insertSpaces, tabSize, eol, isCurrent, edPc,
      calls, commands, edits, watcherVars>>
vars == <<cliVars, serverVars, quickVars, editorVars>>

Undef == "undefined"

(***************************************************************************)
(* LogLevel (common/logger.ts) and bunyan's level constants.               *)
(***************************************************************************)
TRACE == 10
DEBUG == 20
INFO == 30
WARN == 40
ERROR == 50
FATAL == 60
LogLevels == {TRACE, DEBUG, INFO, WARN, ERROR, FATAL}

bunyanTRACE == 10
bunyanDEBUG == 20
bunyanINFO == 30
bunyanWARN == 40
bunyanERROR == 50
bunyanFATAL == 60

\* LogLevel.strings: the name of each level.
LogLevelStrings ==
    [l \in LogLevels |->
        CASE l = FATAL -> "fatal"
          [] l = ERROR -> "error"
          [] l = WARN -> "warn"
          [] l = INFO -> "info"
          [] l = DEBUG -> "debug"
          [] l = TRACE -> "trace"]

\* LogLevel.fromString: the levels named levelStr (none: undefined).
fromString(levelStr) == {l \in LogLevels : LogLevelStrings[l] = levelStr}

(***************************************************************************)
(* Inputs of the model.                                                    *)
(***************************************************************************)
rootLoggerName == "root"

\* Longest "loggers" object of a mapping file.
MaxFileLoggers == 2

\* Level strings given on the command line and in mapping files.
LevelStrs == {"trace", "debug", "info", "warn", "error", "fatal", "potato"}
FileLoggerNames == {"root", "hello", "world"}
FileLevelStrs == {"debug", "fatal", "potato"}

\* The entries of a "loggers" object, in key order: distinct names.
FileLoggerEntries == [name : FileLoggerNames, level : FileLevelStrs]
FileLoggerSeqs ==
    {s \in UNION {[1..n -> FileLoggerEntries] : n \in 0..MaxFileLoggers} :
        \A i, j \in DOMAIN s : i /= j => s[i].name /= s[j].name}

\* What --log-levels-file names: nothing, a missing file, a file that is
\* not JSON, or a JSON object with optional "default" and "loggers".
NoFile ==
    [kind |-> Undef, hasDefault |-> FALSE, default |-> "",
     hasLoggers |-> FALSE, loggers |-> <<>>]
MissingFile == [NoFile EXCEPT !.kind = "missing"]
InvalidJsonFile == [NoFile EXCEPT !.kind = "invalid"]
JsonFiles ==
    {[kind |-> "json", hasDefault |-> hd, default |-> d,
      hasLoggers |-> hl, loggers |-> ls] :
        hd \in BOOLEAN, d \in LevelStrs \cup {""}, hl \in BOOLEAN,
        ls \in FileLoggerSeqs}
Files ==
    {NoFile, MissingFile, InvalidJsonFile}
    \cup {f \in JsonFiles : /\ (f.hasDefault <=> f.default /= "")
                            /\ (~f.hasLoggers => f.loggers = <<>>)}

\* yargs.Arguments: 'log-level' and 'log-levels-file'.
ArgsSet == [logLevel : LevelStrs \cup {Undef}, file : Files]

(***************************************************************************)
(* LogLevelCliContribution.setArguments                                    *)
(***************************************************************************)
NoError == <<>>

\* obj[key] = value on a plain object.
Put(obj, key, value) ==
    [k \in DOMAIN obj \cup {key} |-> IF k = key THEN value ELSE obj[k]]

\* readLogLevelString without the throw: an unknown string reads as INFO.
readLogLevelString_Lenient(levelStr, errMessagePrefix) ==
    LET level == fromString(levelStr) IN
    [threw |-> FALSE, message |-> NoError,
     level |-> IF level = {} THEN INFO ELSE CHOOSE l \in level : TRUE]

\* Convert string to LogLevel, throw if invalid.
readLogLevelString(levelStr, errMessagePrefix) ==
    LET level == fromString(levelStr) IN
    IF level = {}
    THEN [threw |-> TRUE, message |-> <<errMessagePrefix>>, level |-> 0]
    ELSE [threw |-> FALSE, message |-> NoError,
          level |-> CHOOSE l \in level : TRUE]

\* The loop left after its first round: only the first entry is read.
readLoggers_FirstOnly(entries, i, acc) ==
    IF i > Len(entries)
    THEN [threw |-> FALSE, message |-> NoError, logLevels |-> acc]
    ELSE LET r == readLogLevelString(entries[i].level,
                                     "Unknown log level for logger")
         IN IF r.threw
            THEN [threw |-> TRUE, message |-> r.message, logLevels |-> acc]
            ELSE [threw |-> FALSE, message |-> NoError,
                  logLevels |-> Put(acc, entries[i].name, r.level)]

\* for (const logger of Object.keys(loggers)) ...: entries i.. of the
\* object, stopping at the first level string that does not read.
RECURSIVE readLoggers(_, _, _)
readLoggers(entries, i, acc) ==
    IF i > Len(entries)
    THEN [threw |-> FALSE, message |-> NoError, logLevels |-> acc]
    ELSE LET r == readLogLevelString(entries[i].level,
                                     "Unknown log level for logger")
         IN IF r.threw
            THEN [threw |-> TRUE, message |-> r.message, logLevels |-> acc]
            ELSE readLoggers(entries, i + 1,
                             Put(acc, entries[i].name, r.level))

\* The body of the try block: read the file, parse it, take "default" and
\* "loggers".  The fields assigned before a throw keep their new values.
readLogLevelsFile(file, dflt, lvls) ==
    IF file.kind = "missing"
    THEN [threw |-> TRUE, message |-> <<"no such file or directory">>,
          defaultLogLevel |-> dflt, logLevels |-> lvls]
    ELSE IF file.kind = "invalid"
    THEN [threw |-> TRUE, message |-> <<"Unexpected token in JSON">>,
          defaultLogLevel |-> dflt, logLevels |-> lvls]
    ELSE
      LET d == IF file.hasDefault
               THEN readLogLevelString(file.default,
                                       "Unknown default log level in")
               ELSE [threw |-> FALSE, message |-> NoError, level |-> dflt]
      IN IF d.threw
         THEN [threw |-> TRUE, message |-> d.message,
               defaultLogLevel |-> dflt, logLevels |-> lvls]
         ELSE LET l == IF file.hasLoggers
                       THEN readLoggers(file.loggers, 1, lvls)
                       ELSE [threw |-> FALSE, message |-> NoError,
                             logLevels |-> lvls]
              IN [threw |-> l.threw, message |-> l.message,
                  defaultLogLevel |-> d.level, logLevels |-> l.logLevels]

\* The test left out: both flags are taken.
mutuallyExclusive_Never(args) == FALSE

\* args['log-level'] !== undefined && args['log-levels-file'] !== undefined
mutuallyExclusive(args) == args.logLevel /= Undef /\ args.file.kind /= Undef

\* setArguments(args) on a contribution whose fields are dflt and lvls.
setArguments(args, dflt, lvls) ==
    IF mutuallyExclusive(args)
    THEN [threw |-> TRUE,
          message |-> <<"--log-level and --log-levels-file are mutually exclusive.">>,
          defaultLogLevel |-> dflt, logLevels |-> lvls]
    ELSE
      LET flag == IF args.logLevel /= Undef
                  THEN readLogLevelString(args.logLevel,
                           "Unknown log level passed to --log-level")
                  ELSE [threw |-> FALSE, message |-> NoError, level |-> dflt]
      IN IF flag.threw
         THEN [threw |-> TRUE, message |-> flag.message,
               defaultLogLevel |-> dflt, logLevels |-> lvls]
         ELSE IF args.file.kind = Undef
         THEN [threw |-> FALSE, message |-> NoError,
               defaultLogLevel |-> flag.level, logLevels |-> lvls]
         ELSE LET f == readLogLevelsFile(args.file, flag.level, lvls)
              IN IF f.threw
                 THEN [f EXCEPT !.message =
                          <<"Error reading log level file">> \o f.message]
                 ELSE f

\* The fields of a new LogLevelCliContribution.
EmptyObject == [n \in {} |-> INFO]
CliConstructed ==
    /\ cliPc = "start"
    /\ cliError = NoError
    /\ defaultLogLevel = INFO
    /\ logLevels = EmptyObject

\* The server before its construction.
ServerIdle ==
    /\ loggers = EmptyObject
    /\ client = Undef
    /\ call = [op |-> "none", name |-> "", level |-> 0, who |-> Undef,
               outcome |-> "none", error |-> NoError, value |-> 0]
    /\ notified = <<>>
    /\ backend = <<>>

\* A value of a KnownProps property, with its JavaScript type.
Undefined == [type |-> "undefined", str |-> "", num |-> 0, bool |-> FALSE]
Str(s) == [type |-> "string", str |-> s, num |-> 0, bool |-> FALSE]
Num(n) == [type |-> "number", str |-> "", num |-> n, bool |-> FALSE]
Bool(b) == [type |-> "boolean", str |-> "", num |-> 0, bool |-> b]

\* The fields of a new QuickFileOpenService: the root is being resolved.
QuickConstructed ==
    /\ rootPc = "pending"
    /\ wsRoot = Undef
    /\ showIgnoredFiles = TRUE
    /\ opened = FALSE
    /\ ui = [op |-> "none", opens |-> 0, refreshes |-> 0, cancels |-> 0,
             finds |-> 0]
    /\ initialToken = FALSE
    /\ sessions = <<>>
    /\ shown = 0

\* private configurations: { [file: string]: KnownProps } = {}
NoConfigurations == [file \in {} |-> Undefined]

\* A new DocumentWatcher in a workspace with a root, before any editor.
WatcherIdle ==
    /\ configurations = NoConfigurations
    /\ pending = 0
    /\ hasRoot = TRUE
    /\ created = FALSE
    /\ errors = {}

\* An editor with an empty document that nothing was applied to.
EditorIdle ==
    /\ properties =
         [indent_style |-> Undefined, indent_size |-> Undefined,
          tab_width |-> Undefined, end_of_line |-> Undefined,
          trim_trailing_whitespace |-> Undefined,
          insert_final_newline |-> Undefined]
    /\ lines = << <<>> >>
    /\ cursor = [lineNumber |-> 1, column |-> 1]
    /\ insertSpaces = TRUE
    /\ tabSize = 4
    /\ eol = "LF"
    /\ isCurrent = FALSE
    /\ edPc = "start"
    /\ calls = <<>>
    /\ commands = <<>>
    /\ edits = <<>>
    /\ WatcherIdle

SetArguments ==
    /\ cliPc = "start"
    /\ LET r == setArguments(cliArgs, defaultLogLevel, logLevels) IN
        /\ cliError' = r.message
        /\ defaultLogLevel' = r.defaultLogLevel
        /\ logLevels' = r.logLevels
    /\ cliPc' = "done"
    /\ UNCHANGED <<cliArgs, serverVars, quickVars, editorVars>>

CliInit ==
    /\ cliArgs \in ArgsSet
    /\ CliConstructed
    /\ ServerIdle
    /\ QuickConstructed
    /\ EditorIdle

CliNext == SetArguments

SpecCli == CliInit /\ [][CliNext]_vars

(***************************************************************************)
(* Properties of setArguments, checked under SpecCli.                      *)
(***************************************************************************)
\* The names of the six levels and the level each names.
KnownLevelNames == {"trace", "debug", "info", "warn", "error", "fatal"}
LevelNamed(s) ==
    CASE s = "trace" -> TRACE
      [] s = "debug" -> DEBUG
      [] s = "info" -> INFO
      [] s = "warn" -> WARN
      [] s = "error" -> ERROR
      [] s = "fatal" -> FATAL

\* A mapping file that exists, is JSON and names only known levels.
ValidFile(f) ==
    /\ f.kind = "json"
    /\ f.hasDefault => f.default \in KnownLevelNames
    /\ \A i \in DOMAIN f.loggers : f.loggers[i].level \in KnownLevelNames

\* C7: both flags: the 'mutually exclusive' error; a valid --log-level
\* alone: success, and the default level is the one it names; a valid
\* mapping file alone: success; neither: success, default level INFO and
\* an empty per-logger mapping.
C7_StartupArguments ==
    cliPc = "done" =>
        LET flag == cliArgs.logLevel
            file == cliArgs.file
        IN /\ (flag /= Undef /\ file.kind /= Undef)
                => cliError =
                     <<"--log-level and --log-levels-file are mutually exclusive.">>
           /\ (flag \in KnownLevelNames /\ file.kind = Undef)
                => cliError = NoError /\ defaultLogLevel = LevelNamed(flag)
           /\ (flag = Undef /\ ValidFile(file)) => cliError = NoError
           /\ (flag = Undef /\ file.kind = Undef)
                => /\ cliError = NoError
                   /\ defaultLogLevel = INFO
                   /\ DOMAIN logLevels = {}

\* setArguments has run with a valid --log-level and a valid mapping file.
C7_Witness ==
    /\ cliPc = "done"
    /\ cliArgs.logLevel \in KnownLevelNames
    /\ ValidFile(cliArgs.file)
    /\ cliError /= NoError

\* C8: setArguments fails whenever the --log-level string, the file's
\* "default" or one of the file's "loggers" entries is not a known level
\* name, and whenever the file is missing or is not JSON.
C8_MalformedStartupFails ==
    cliPc = "done" =>
        LET flag == cliArgs.logLevel
            file == cliArgs.file
        IN (\/ flag /= Undef /\ flag \notin KnownLevelNames
            \/ file.kind \in {"missing", "invalid"}
            \/ file.kind = "json" /\ file.hasDefault
                /\ file.default \notin KnownLevelNames
            \/ file.kind = "json"
                /\ \E i \in DOMAIN file.loggers :
                      file.loggers[i].level \notin KnownLevelNames)
           => cliError /= NoError

\* setArguments has run on a file whose "default" is known and whose second
\* "loggers" entry is not a level name.
C8_Witness ==
    /\ cliPc = "done"
    /\ cliArgs.logLevel = Undef
    /\ cliArgs.file.kind = "json"
    /\ cliArgs.file.default = "warn"
    /\ Len(cliArgs.file.loggers) = 2
    /\ cliArgs.file.loggers[1].level = "debug"
    /\ cliArgs.file.loggers[2].level = "potato"
    /\ cliError /= NoError

\* C9: after setArguments succeeds with a mapping file, the default level
\* is the one the file's "default" names (INFO without a "default"), and
\* the per-logger mapping holds exactly the file's "loggers" entries, each
\* with the level its string names.
C9_MappingFileIsRead ==
    (cliPc = "done" /\ cliError = NoError /\ cliArgs.file.kind /= Undef) =>
        LET file == cliArgs.file IN
        /\ defaultLogLevel =
               IF file.hasDefault THEN LevelNamed(file.default) ELSE INFO
        /\ DOMAIN logLevels =
               {file.loggers[i].name : i \in DOMAIN file.loggers}
        /\ \A i \in DOMAIN file.loggers :
               logLevels[file.loggers[i].name] =
                   LevelNamed(file.loggers[i].level)

\* setArguments has succeeded on a file with a "default" and two "loggers".
C9_Witness ==
    /\ cliPc = "done"
    /\ cliError = NoError
    /\ cliArgs.file.kind = "json"
    /\ cliArgs.file.default = "error"
    /\ Len(cliArgs.file.loggers) = 2
    /\ defaultLogLevel = ERROR
    /\ Cardinality(DOMAIN logLevels) = 2

(***************************************************************************)
(* BunyanLoggerServer                                                      *)
(***************************************************************************)
\* Names given to child, setLogLevel, getLogLevel and log.
LoggerNames == {"root", "hello", ""}
\* Level numbers given to setLogLevel and log: the six levels and a number
\* that is none of them.
NotALevel == 35
LevelInputs == LogLevels \cup {NotALevel}
Clients == {"c1", "c2"}

\* The conversion with FATAL's case missing its return: it falls to ERROR.
toBunyanLevel_FatalAsError(logLevel) ==
    CASE logLevel = FATAL -> bunyanERROR
      [] logLevel = ERROR -> bunyanERROR
      [] logLevel = WARN -> bunyanWARN
      [] logLevel = INFO -> bunyanINFO
      [] logLevel = DEBUG -> bunyanDEBUG
      [] logLevel = TRACE -> bunyanTRACE
      [] OTHER -> bunyanINFO

\* Convert Theia's log levels to bunyan's.
toBunyanLevel(logLevel) ==
    CASE logLevel = FATAL -> bunyanFATAL
      [] logLevel = ERROR -> bunyanERROR
      [] logLevel = WARN -> bunyanWARN
      [] logLevel = INFO -> bunyanINFO
      [] logLevel = DEBUG -> bunyanDEBUG
      [] logLevel = TRACE -> bunyanTRACE
      [] OTHER -> bunyanINFO

toLogLevel(bunyanLogLevel) ==
    CASE bunyanLogLevel = bunyanFATAL -> FATAL
      [] bunyanLogLevel = bunyanERROR -> ERROR
      [] bunyanLogLevel = bunyanWARN -> WARN
      [] bunyanLogLevel = bunyanINFO -> INFO
      [] bunyanLogLevel = bunyanDEBUG -> DEBUG
      [] bunyanLogLevel = bunyanTRACE -> TRACE
      [] OTHER -> INFO

\* makeLoggerOptions without the lookup in cli.logLevels.
makeLoggerOptions_IgnoresMapping(name) == defaultLogLevel

\* makeLoggerOptions(name).level
makeLoggerOptions(name) ==
    IF name \in DOMAIN logLevels
    THEN toBunyanLevel(logLevels[name])
    ELSE defaultLogLevel

\* A call of the server: what was called, with what, and how it ended.
Call(op, name, level, who, outcome, error, value) ==
    [op |-> op, name |-> name, level |-> level, who |-> who,
     outcome |-> outcome, error |-> error, value |-> value]

\* new Error(`No logger named ${name}.`)
NoLoggerNamed(name) == <<"No logger named", name>>

\* init that creates no root logger.
init_NoRoot ==
    /\ loggers = EmptyObject
    /\ client = Undef
    /\ call = Call("init", "", 0, Undef, "returned", NoError, 0)
    /\ notified = <<>>
    /\ backend = <<>>

\* init: create the root logger by default.
init ==
    /\ loggers = Put(EmptyObject, rootLoggerName,
                     makeLoggerOptions(rootLoggerName))
    /\ client = Undef
    /\ call = Call("init", "", 0, Undef, "returned", NoError, 0)
    /\ notified = <<>>
    /\ backend = <<>>

\* child without the test for an existing logger: the logger is made anew.
child_Recreate(name) ==
    /\ IF name = ""
       THEN /\ call' = Call("child", name, 0, Undef, "rejected",
                            <<"Can't create a logger with an empty name.">>, 0)
            /\ UNCHANGED loggers
       ELSE /\ loggers' = Put(loggers, name, makeLoggerOptions(name))
            /\ call' = Call("child", name, 0, Undef, "resolved", NoError, 0)
    /\ notified' = <<>>
    /\ backend' = <<>>
    /\ UNCHANGED <<client, cliVars, quickVars, editorVars>>

\* child(name): create a logger child of the root logger.
child(name) ==
    /\ IF name = ""
       THEN /\ call' = Call("child", name, 0, Undef, "rejected",
                            <<"Can't create a logger with an empty name.">>, 0)
            /\ UNCHANGED loggers
       ELSE IF name \in DOMAIN loggers
       THEN /\ call' = Call("child", name, 0, Undef, "resolved", NoError, 0)
            /\ UNCHANGED loggers
       ELSE IF rootLoggerName \notin DOMAIN loggers
       THEN /\ call' = Call("child", name, 0, Undef, "threw",
                            <<"No root logger.">>, 0)
            /\ UNCHANGED loggers
       ELSE /\ loggers' = Put(loggers, name, makeLoggerOptions(name))
            /\ call' = Call("child", name, 0, Undef, "resolved", NoError, 0)
    /\ notified' = <<>>
    /\ backend' = <<>>
    /\ UNCHANGED <<client, cliVars, quickVars, editorVars>>

\* setClient(client): set the client to receive notifications on.
setClient(c) ==
    /\ client' = c
    /\ call' = Call("setClient", "", 0, c, "returned", NoError, 0)
    /\ notified' = <<>>
    /\ backend' = <<>>
    /\ UNCHANGED <<loggers, cliVars, quickVars, editorVars>>

\* The ILogLevelChangedEvent as one receiver gets it.
Notification(to, name, oldLogLevel, newLogLevel) ==
    [to |-> to, loggerName |-> name,
     oldLogLevel |-> oldLogLevel, newLogLevel |-> newLogLevel]

\* The notifications in the other order: the backend, then the frontend.
notifyLogLevelChanged_WatcherFirst(name, oldLogLevel, newLogLevel) ==
    <<Notification(<<"watcher">>, name, oldLogLevel, newLogLevel)>>
    \o (IF client /= Undef
        THEN <<Notification(<<"client", client>>, name, oldLogLevel,
                            newLogLevel)>>
        ELSE <<>>)

\* The notifications with every client that was ever set kept in a list.
notifyLogLevelChanged_Broadcast(name, oldLogLevel, newLogLevel) ==
    <<Notification(<<"client", "c1">>, name, oldLogLevel, newLogLevel),
      Notification(<<"client", "c2">>, name, oldLogLevel, newLogLevel),
      Notification(<<"watcher">>, name, oldLogLevel, newLogLevel)>>

\* The notifications of one level change: the frontend, then the backend.
notifyLogLevelChanged(name, oldLogLevel, newLogLevel) ==
    (IF client /= Undef
     THEN <<Notification(<<"client", client>>, name, oldLogLevel, newLogLevel)>>
     ELSE <<>>)
    \o <<Notification(<<"watcher">>, name, oldLogLevel, newLogLevel)>>

\* The test left out: every call counts as a change.
sameLogLevel_Never(oldLogLevel, logLevel) == FALSE

\* if (oldLogLevel === logLevel) return Promise.resolve();
sameLogLevel(oldLogLevel, logLevel) == oldLogLevel = logLevel

\* setLogLevel(name, logLevel): set the log level for a logger.
setLogLevel(name, logLevel) ==
    /\ IF name \notin DOMAIN loggers
       THEN /\ call' = Call("setLogLevel", name, logLevel, Undef, "threw",
                            NoLoggerNamed(name), 0)
            /\ notified' = <<>>
            /\ UNCHANGED loggers
       ELSE LET oldLogLevel == toLogLevel(loggers[name]) IN
            IF sameLogLevel(oldLogLevel, logLevel)
            THEN /\ call' = Call("setLogLevel", name, logLevel, Undef,
                                 "resolved", NoError, 0)
                 /\ notified' = <<>>
                 /\ UNCHANGED loggers
            ELSE /\ loggers' = [loggers EXCEPT
                                   ![name] = toBunyanLevel(logLevel)]
                 /\ notified' =
                        notifyLogLevelChanged(name, oldLogLevel, logLevel)
                 /\ call' = Call("setLogLevel", name, logLevel, Undef,
                                 "resolved", NoError, oldLogLevel)
    /\ backend' = <<>>
    /\ UNCHANGED <<client, cliVars, quickVars, editorVars>>

\* getLogLevel(name): get the log level for a logger.
getLogLevel(name) ==
    /\ IF name \notin DOMAIN loggers
       THEN call' = Call("getLogLevel", name, 0, Undef, "threw",
                         NoLoggerNamed(name), 0)
       ELSE call' = Call("getLogLevel", name, 0, Undef, "resolved", NoError,
                         toLogLevel(loggers[name]))
    /\ notified' = <<>>
    /\ backend' = <<>>
    /\ UNCHANGED <<loggers, client, cliVars, quickVars, editorVars>>

\* The switch with logger.trace as its default.
logSeverity_DefaultTrace(logLevel) ==
    CASE logLevel = TRACE -> bunyanTRACE
      [] logLevel = DEBUG -> bunyanDEBUG
      [] logLevel = INFO -> bunyanINFO
      [] logLevel = WARN -> bunyanWARN
      [] logLevel = ERROR -> bunyanERROR
      [] logLevel = FATAL -> bunyanFATAL
      [] OTHER -> bunyanTRACE

\* The bunyan method log's switch picks, as the severity it logs at.
logSeverity(logLevel) ==
    CASE logLevel = TRACE -> bunyanTRACE
      [] logLevel = DEBUG -> bunyanDEBUG
      [] logLevel = INFO -> bunyanINFO
      [] logLevel = WARN -> bunyanWARN
      [] logLevel = ERROR -> bunyanERROR
      [] logLevel = FATAL -> bunyanFATAL
      [] OTHER -> bunyanINFO

\* log without the test for an unknown logger: the message is logged anyway.
log_Unchecked(name, logLevel) ==
    /\ call' = Call("log", name, logLevel, Undef, "resolved", NoError, 0)
    /\ backend' = <<[logger |-> name, severity |-> logSeverity(logLevel)]>>
    /\ notified' = <<>>
    /\ UNCHANGED <<loggers, client, cliVars, quickVars, editorVars>>

\* log(name, logLevel, message, params): log a message to a logger.
log(name, logLevel) ==
    /\ IF name \notin DOMAIN loggers
       THEN /\ call' = Call("log", name, logLevel, Undef, "threw",
                            NoLoggerNamed(name), 0)
            /\ backend' = <<>>
       ELSE /\ call' = Call("log", name, logLevel, Undef, "resolved", NoError, 0)
            /\ backend' = <<[logger |-> name,
                             severity |-> logSeverity(logLevel)]>>
    /\ notified' = <<>>
    /\ UNCHANGED <<loggers, client, cliVars, quickVars, editorVars>>

\* The command lines the server is started with.
ServerFiles ==
    {f \in Files :
        /\ f.kind \in {Undef, "json"}
        /\ f.hasLoggers <=> f.loggers /= <<>>
        /\ f.default \in {"", "warn"}
        /\ f.loggers \in {<<>>,
                          <<[name |-> "hello", level |-> "debug"]>>,
                          <<[name |-> "root", level |-> "fatal"],
                            [name |-> "hello", level |-> "debug"]>>}}
ServerArgs ==
    {a \in ArgsSet : /\ a.logLevel \in {Undef, "debug"}
                     /\ a.file \in ServerFiles}

\* The state after startup: setArguments has returned, the server is
\* constructed and init has run.
Init ==
    /\ cliArgs \in ServerArgs
    /\ LET r == setArguments(cliArgs, INFO, EmptyObject) IN
        /\ ~r.threw
        /\ cliError = NoError
        /\ defaultLogLevel = r.defaultLogLevel
        /\ logLevels = r.logLevels
    /\ cliPc = "done"
    /\ init
    /\ QuickConstructed
    /\ EditorIdle

Next ==
    \/ \E name \in LoggerNames : child(name)
    \/ \E c \in Clients \cup {Undef} : setClient(c)
    \/ \E name \in LoggerNames, logLevel \in LevelInputs :
          setLogLevel(name, logLevel)
    \/ \E name \in LoggerNames : getLogLevel(name)
    \/ \E name \in LoggerNames, logLevel \in LevelInputs : log(name, logLevel)

Spec == Init /\ [][Next]_vars

(***************************************************************************)
(* Properties of BunyanLoggerServer, checked under Spec.                   *)
(***************************************************************************)
\* The step is a call of op: every action records its call, and no action
\* records the call of another.
Called(op) == call'.op = op

\* C1: for an existing logger and a level L different from its current
\* level, setLogLevel(name, L) emits exactly the change {name, old level, L},
\* first to the registered client (if there is one) and then to the local
\* watcher, and nothing else.
C1_SetNotifiesClientThenWatcher ==
    [][(/\ Called("setLogLevel")
        /\ call'.name \in DOMAIN loggers
        /\ call'.level /= toLogLevel(loggers[call'.name]))
       => LET change(to) ==
                  [to |-> to, loggerName |-> call'.name,
                   oldLogLevel |-> toLogLevel(loggers[call'.name]),
                   newLogLevel |-> call'.level]
          IN notified' =
                 IF client = Undef
                 THEN <<change(<<"watcher">>)>>
                 ELSE <<change(<<"client", client>>), change(<<"watcher">>)>>
      ]_vars

\* A level change of a logger made while a client is registered.
C1_Witness ==
    /\ call.op = "setLogLevel"
    /\ call.outcome = "resolved"
    /\ client \in Clients
    /\ Len(notified) = 2
    /\ notified[1].oldLogLevel /= notified[1].newLogLevel

\* C2: for an existing logger, setLogLevel(name, L) with L the logger's
\* current level changes no level and notifies neither the client nor the
\* watcher.
C2_SetSameLevelIsNoOp ==
    [][(/\ Called("setLogLevel")
        /\ call'.name \in DOMAIN loggers
        /\ call'.level = toLogLevel(loggers[call'.name]))
       => /\ loggers' = loggers
          /\ notified' = <<>>
          /\ call'.outcome = "resolved"
      ]_vars

\* A call of setLogLevel with the level the logger has, a client registered.
C2_Witness ==
    /\ call.op = "setLogLevel"
    /\ call.name \in DOMAIN loggers
    /\ call.level = toLogLevel(loggers[call.name])
    /\ client \in Clients
    /\ notified = <<>>

\* C3: for a name that is not in the registry, getLogLevel, setLogLevel and
\* log raise 'No logger named <name>', leave the registry and every level
\* unchanged, emit no notification and forward nothing to the backend.
C3_UnknownLoggerRaises ==
    [][(/\ (Called("getLogLevel") \/ Called("setLogLevel") \/ Called("log"))
        /\ call'.name \notin DOMAIN loggers)
       => /\ call'.outcome = "threw"
          /\ call'.error = <<"No logger named", call'.name>>
          /\ loggers' = loggers
          /\ notified' = <<>>
          /\ backend' = <<>>
      ]_vars

\* A call of log for a logger that was never created.
C3_Witness ==
    /\ call.op = "log"
    /\ call.name = "hello"
    /\ call.name \notin DOMAIN loggers
    /\ call.outcome = "threw"

\* C10: child("") fails and adds nothing; child of a registered name
\* succeeds and leaves the registry, and so that logger's level, as it is;
\* child of any other name adds exactly one entry, for that name.
C10_ChildCreatesOnce ==
    [][Called("child")
       => IF call'.name = ""
          THEN /\ call'.outcome = "rejected"
               /\ call'.error /= NoError
               /\ loggers' = loggers
          ELSE IF call'.name \in DOMAIN loggers
          THEN /\ call'.outcome = "resolved"
               /\ loggers' = loggers
          ELSE /\ call'.outcome = "resolved"
               /\ DOMAIN loggers' = DOMAIN loggers \cup {call'.name}
               /\ \A n \in DOMAIN loggers : loggers'[n] = loggers[n]
      ]_vars

\* child of a registered logger whose level setLogLevel changed earlier:
\* the level is no longer the one the logger was created with.
C10_Witness ==
    /\ call.op = "child"
    /\ call.name = "hello"
    /\ call.outcome = "resolved"
    /\ "hello" \in DOMAIN loggers
    /\ loggers["hello"] /= makeLoggerOptions("hello")

\* The step is child(name) for a name that is not empty and not registered.
Created(name) ==
    /\ Called("child")
    /\ call'.name = name
    /\ name /= ""
    /\ name \notin DOMAIN loggers

C12_RegistryOnlyGrows ==
    /\ rootLoggerName \in DOMAIN loggers
    /\ [][/\ rootLoggerName \in DOMAIN loggers'
          /\ DOMAIN loggers \subseteq DOMAIN loggers'
          /\ \A n \in DOMAIN loggers :
                loggers'[n] /= loggers[n]
                  => Called("setLogLevel") /\ call'.name = n
         ]_vars

\* The root and a child are registered and calls went on after the child's
\* creation.
C12_Witness ==
    /\ DOMAIN loggers = {rootLoggerName, "hello"}
    /\ call.op = "child"
    /\ call.name = ""
    /\ client = "c1"
    /\ loggers["hello"] /= makeLoggerOptions("hello")

\* C13: a level change goes to at most one client, the one registered when
\* it happens: a replaced client gets nothing, after setClient(undefined)
\* no client gets anything, and the watcher gets every change.
C13_OnlyCurrentClientNotified ==
    [][LET toClient == {i \in DOMAIN notified' : notified'[i].to[1] = "client"}
           toWatcher == {i \in DOMAIN notified' : notified'[i].to = <<"watcher">>}
       IN /\ Cardinality(toClient) <= 1
          /\ \A i \in toClient :
                client' /= Undef /\ notified'[i].to = <<"client", client'>>
          /\ DOMAIN notified' = toClient \cup toWatcher
          /\ (Called("setLogLevel") /\ loggers' /= loggers)
                => /\ Cardinality(toWatcher) = 1
                   /\ client' /= Undef => Cardinality(toClient) = 1
      ]_vars

\* A level change with no client registered: only the watcher is notified.
C13_Witness ==
    /\ call.op = "setLogLevel"
    /\ call.name = "hello"
    /\ client = Undef
    /\ Len(notified) = 1
    /\ notified[1].to = <<"watcher">>
    /\ notified[1].oldLogLevel /= notified[1].newLogLevel

\* The bunyan severity of each level, and of a number that is no level.
SeverityOf(level) ==
    CASE level = TRACE -> bunyanTRACE
      [] level = DEBUG -> bunyanDEBUG
      [] level = INFO -> bunyanINFO
      [] level = WARN -> bunyanWARN
      [] level = ERROR -> bunyanERROR
      [] level = FATAL -> bunyanFATAL
      [] level \notin LogLevels -> bunyanINFO

\* C14: for an existing logger, log forwards exactly one message to the
\* backend, at the severity of its level and at INFO for a number that is
\* no level; it changes no level and notifies nobody.
C14_LogForwardsOnce ==
    [][(Called("log") /\ call'.name \in DOMAIN loggers)
       => /\ call'.outcome = "resolved"
          /\ backend' = <<[logger |-> call'.name,
                           severity |-> SeverityOf(call'.level)]>>
          /\ loggers' = loggers
          /\ notified' = <<>>
      ]_vars

\* A message logged to a child at a number that is no level.
C14_Witness ==
    /\ call.op = "log"
    /\ call.name = "hello"
    /\ call.level = NotALevel
    /\ call.outcome = "resolved"
    /\ Len(backend) = 1
    /\ backend[1].severity = bunyanINFO

\* C23: every notification reports a change between two of the six
\* levels: old and new level are levels and differ, and getLogLevel of the
\* logger returns the new level after the call.
C23_NotificationsReportRealChange ==
    [][\A i \in DOMAIN notified' :
          /\ notified'[i].oldLogLevel \in LogLevels
          /\ notified'[i].newLogLevel \in LogLevels
          /\ notified'[i].oldLogLevel /= notified'[i].newLogLevel
          /\ toLogLevel(loggers'[notified'[i].loggerName]) =
                notified'[i].newLogLevel
      ]_vars

\* C24: setLogLevel(name, L) on an existing logger with one of the six
\* levels makes getLogLevel(name) return L and leaves what getLogLevel
\* returns for every other registered logger.
C24_SetThenGet ==
    [][(/\ Called("setLogLevel")
        /\ call'.name \in DOMAIN loggers
        /\ call'.level \in LogLevels)
       => /\ call'.outcome = "resolved"
          /\ DOMAIN loggers' = DOMAIN loggers
          /\ toLogLevel(loggers'[call'.name]) = call'.level
          /\ \A other \in DOMAIN loggers \ {call'.name} :
                toLogLevel(loggers'[other]) = toLogLevel(loggers[other])
      ]_vars

\* The root has been set to FATAL from another level beside a child that
\* stays at its own level.
C24_Witness ==
    /\ call.op = "setLogLevel"
    /\ call.name = rootLoggerName
    /\ call.level = FATAL
    /\ call.value /= FATAL
    /\ toLogLevel(loggers[rootLoggerName]) = FATAL
    /\ "hello" \in DOMAIN loggers
    /\ toLogLevel(loggers["hello"]) = DEBUG

(***************************************************************************)
(* QuickFileOpenService                                                    *)
(***************************************************************************)
\* Most onType calls that start a search.
MaxSessions == 2
\* Longest array a find request resolves to.
MaxResults == 2

\* The workspace root's uri, and paths the search service reports.
RootUri == "file:///ws"
Paths == {"a", "b"}
Results == UNION {[1..n -> Paths] : n \in 0..MaxResults}

\* root.withPath(root.path.join(p)).toString()
toUri(rootUri, p) == <<rootUri, p>>

\* What a call asked of the QuickOpenService and the FileSearchService.
UiCall(op, opens, refreshes, cancels, finds) ==
    [op |-> op, opens |-> opens, refreshes |-> refreshes,
     cancels |-> cancels, finds |-> finds]

\* workspaceService.root.then(root => this.wsRoot = root)
rootResolved(root) ==
    /\ rootPc = "pending"
    /\ rootPc' = "resolved"
    /\ wsRoot' = root
    /\ UNCHANGED <<showIgnoredFiles, opened, ui, initialToken, sessions,
                   shown, cliVars, serverVars, editorVars>>

isEnabled == wsRoot /= Undef

\* open() that opens a picker whether or not one is open.
open_AlwaysOpens ==
    /\ opened' = TRUE
    /\ ui' = UiCall("open", 1, 0, 0, 0)
    /\ UNCHANGED <<showIgnoredFiles, rootPc, wsRoot, initialToken, sessions,
                   shown, cliVars, serverVars, editorVars>>

\* open(): open the picker, or toggle the ignored files of the open picker.
open ==
    /\ IF ~opened
       THEN /\ opened' = TRUE
            /\ ui' = UiCall("open", 1, 0, 0, 0)
            /\ UNCHANGED showIgnoredFiles
       ELSE /\ showIgnoredFiles' = ~showIgnoredFiles
            /\ ui' = UiCall("open", 0, 1, 0, 0)
            /\ UNCHANGED opened
    /\ UNCHANGED <<rootPc, wsRoot, initialToken, sessions, shown, cliVars,
                   serverVars, editorVars>>

\* onClose that leaves the flag as it was toggled.
onClose_KeepsFlag ==
    /\ opened
    /\ opened' = FALSE
    /\ ui' = UiCall("onClose", 0, 0, 0, 0)
    /\ UNCHANGED <<showIgnoredFiles, rootPc, wsRoot, initialToken, sessions,
                   shown, cliVars, serverVars, editorVars>>

\* The onClose callback open() hands to the QuickOpenService.
onClose ==
    /\ opened
    /\ showIgnoredFiles' = TRUE
    /\ opened' = FALSE
    /\ ui' = UiCall("onClose", 0, 0, 0, 0)
    /\ UNCHANGED <<rootPc, wsRoot, initialToken, sessions, shown, cliVars,
                   serverVars, editorVars>>

\* The search an onType call starts: its token, the option of its find
\* request, and how far the request and its handler have come.
NewSession ==
    [cancelled |-> FALSE, useGitIgnore |-> showIgnoredFiles,
     pc |-> "finding", cancelledAtResolve |-> FALSE, proposed |-> {},
     awaiting |-> {}, cancelledAtAccept |-> FALSE]

\* The cancel left out.
cancelCurrent_Nothing(ss) == ss

\* this.cancelIndicator.cancel(): the token of the latest source.
cancelCurrent(ss) ==
    IF ss = <<>> THEN ss ELSE [ss EXCEPT ![Len(ss)].cancelled = TRUE]

\* onType without the test of the workspace root.
onType_NoRootTest ==
    /\ Len(sessions) < MaxSessions
    /\ initialToken' = TRUE
    /\ sessions' = Append(cancelCurrent(sessions), NewSession)
    /\ ui' = UiCall("onType", 0, 0, 1, 1)
    /\ UNCHANGED <<rootPc, wsRoot, showIgnoredFiles, opened, shown,
                   cliVars, serverVars, editorVars>>

\* onType(lookFor, acceptor)
onType ==
    IF wsRoot = Undef
    THEN /\ ui' = UiCall("onType", 0, 0, 0, 0)
         /\ UNCHANGED <<rootPc, wsRoot, showIgnoredFiles, opened,
                        initialToken, sessions, shown, cliVars, serverVars,
                        editorVars>>
    ELSE /\ Len(sessions) < MaxSessions
         /\ initialToken' = TRUE
         /\ sessions' = Append(cancelCurrent(sessions), NewSession)
         /\ ui' = UiCall("onType", 0, 0, 1, 1)
         /\ UNCHANGED <<rootPc, wsRoot, showIgnoredFiles, opened, shown,
                        cliVars, serverVars, editorVars>>

\* The await that never hands its items to the acceptor.
accept_Never(ss, n) == [ss EXCEPT ![n].awaiting = {}]

\* acceptor(await Promise.all(itemPromises)) of session n.
accept(ss, n) ==
    [ss EXCEPT ![n].pc = "accepted", ![n].awaiting = {},
               ![n].cancelledAtAccept = ss[n].cancelled]

\* The handler without its test of the token.
handler_Unchecked(ss, n, result) ==
    LET proposed == {toUri(wsRoot, result[i]) : i \in DOMAIN result}
        started == [ss EXCEPT ![n].cancelledAtResolve = ss[n].cancelled,
                              ![n].proposed = proposed,
                              ![n].awaiting = proposed,
                              ![n].pc = "building"]
    IN IF proposed = {} THEN accept(started, n) ELSE started

\* handler(result) of session n, up to its await: with a token that is not
\* cancelled the uris are proposed and their items requested; the await of
\* no item promise ends in the same task, with the acceptor's call.
handler(ss, n, result) ==
    LET seen == [ss EXCEPT ![n].cancelledAtResolve = ss[n].cancelled] IN
    IF seen[n].cancelled
    THEN [seen EXCEPT ![n].pc = "dropped"]
    ELSE LET proposed == {toUri(wsRoot, result[i]) : i \in DOMAIN result}
             started == [seen EXCEPT ![n].proposed = proposed,
                                     ![n].awaiting = proposed,
                                     ![n].pc = "building"]
         IN IF proposed = {} THEN accept(started, n) ELSE started

\* fileSearchService.find(...) of session n resolves to result.
findResolved(n, result) ==
    /\ n \in DOMAIN sessions
    /\ sessions[n].pc = "finding"
    /\ sessions' = handler(sessions, n, result)
    /\ shown' = IF sessions'[n].pc = "accepted" THEN n ELSE shown
    /\ UNCHANGED <<rootPc, wsRoot, showIgnoredFiles, opened, ui,
                   initialToken, cliVars, serverVars, editorVars>>

\* fileSearchService.find(...) of session n is rejected: no handler runs.
findRejected(n) ==
    /\ n \in DOMAIN sessions
    /\ sessions[n].pc = "finding"
    /\ sessions' = [sessions EXCEPT ![n].pc = "rejected",
                       ![n].cancelledAtResolve = sessions[n].cancelled]
    /\ UNCHANGED <<rootPc, wsRoot, showIgnoredFiles, opened, ui,
                   initialToken, shown, cliVars, serverVars, editorVars>>

\* toItem(uri) of session n completes (labelProvider.getIcon resolves);
\* with the last one Promise.all resolves and the acceptor is called.
toItemCompleted(n, uri) ==
    /\ n \in DOMAIN sessions
    /\ sessions[n].pc = "building"
    /\ uri \in sessions[n].awaiting
    /\ LET rest == sessions[n].awaiting \ {uri} IN
       IF rest = {}
       THEN /\ sessions' = accept(sessions, n)
            /\ shown' = n
       ELSE /\ sessions' = [sessions EXCEPT ![n].awaiting = rest]
            /\ UNCHANGED shown
    /\ UNCHANGED <<rootPc, wsRoot, showIgnoredFiles, opened, ui,
                   initialToken, cliVars, serverVars, editorVars>>

QuickInit ==
    /\ cliArgs = [logLevel |-> Undef, file |-> NoFile]
    /\ CliConstructed
    /\ ServerIdle
    /\ QuickConstructed
    /\ EditorIdle

QuickNext ==
    \/ \E root \in {Undef, RootUri} : rootResolved(root)
    \/ open
    \/ onClose
    \/ onType
    \/ \E n \in 1..MaxSessions, result \in Results : findResolved(n, result)
    \/ \E n \in 1..MaxSessions : findRejected(n)
    \/ \E n \in 1..MaxSessions, p \in Paths :
          toItemCompleted(n, toUri(RootUri, p))

SpecQuick == QuickInit /\ [][QuickNext]_vars

\* The searches with every find request settling and every item
\* construction completing: a settled promise runs its callbacks.
SpecQuickLive ==
    /\ QuickInit
    /\ [][QuickNext]_vars
    /\ WF_vars(\E n \in 1..MaxSessions :
                  \/ \E result \in Results : findResolved(n, result)
                  \/ findRejected(n))
    /\ WF_vars(\E n \in 1..MaxSessions, p \in Paths :
                  toItemCompleted(n, toUri(RootUri, p)))

(***************************************************************************)
(* Properties of QuickFileOpenService, checked under SpecQuick.            *)
(***************************************************************************)
\* C4: when the next onType call has cancelled a session's token before
\* the session's find request resolved, the acceptor is never called with
\* that session's items, in whatever order the find requests resolve.
C4_CancelledBeforeResolveNeverAccepted ==
    \A n \in DOMAIN sessions :
        (sessions[n].pc /= "finding" /\ sessions[n].cancelledAtResolve)
            => /\ sessions[n].pc \notin {"building", "accepted"}
               /\ sessions[n].proposed = {}
               /\ shown /= n

\* The second search has been accepted, and the first one's find request
\* has resolved after its token was cancelled.
C4_Witness ==
    /\ Len(sessions) = 2
    /\ sessions[1].pc = "dropped"
    /\ sessions[1].cancelledAtResolve
    /\ sessions[2].pc = "accepted"
    /\ sessions[2].proposed /= {}
    /\ shown = 2

\* C5: the acceptor is never called for a session whose token is cancelled
\* at the moment of the call.
C5_NeverAcceptedWhenCancelled ==
    \A n \in DOMAIN sessions :
        sessions[n].pc = "accepted" => ~sessions[n].cancelledAtAccept

\* C20: while the workspace root is missing the service is disabled, and
\* onType returns without cancelling the current token, without a find
\* request and without the acceptor ever being called.
C20_DisabledWithoutRoot ==
    wsRoot = Undef
      => /\ ~isEnabled
         /\ ~initialToken
         /\ sessions = <<>>
         /\ shown = 0
         /\ ui.op = "onType" => ui.cancels = 0 /\ ui.finds = 0

\* The root has resolved to undefined and onType has been called.
C20_Witness ==
    /\ rootPc = "resolved"
    /\ wsRoot = Undef
    /\ ui.op = "onType"
    /\ sessions = <<>>

\* The step is a call of open().
OpenStep ==
    /\ ui'.op = "open"
    /\ <<ui, opened, showIgnoredFiles>>' /= <<ui, opened, showIgnoredFiles>>

\* C21: open() on an open picker opens nothing, flips showIgnoredFiles
\* once and refreshes once; open() on a closed picker opens it once and
\* leaves the flag; neither starts a search, and every search started
\* later passes the flag as it is then.
C21_OpenTogglesOrOpensOnce ==
    [][/\ OpenStep
         => /\ opened'
            /\ sessions' = sessions
            /\ IF opened
               THEN /\ showIgnoredFiles' = ~showIgnoredFiles
                    /\ ui' = UiCall("open", 0, 1, 0, 0)
               ELSE /\ showIgnoredFiles' = showIgnoredFiles
                    /\ ui' = UiCall("open", 1, 0, 0, 0)
       /\ Len(sessions') > Len(sessions)
         => sessions'[Len(sessions')].useGitIgnore = showIgnoredFiles
      ]_vars

\* The flag has been toggled on the open picker and a search started
\* after it passes the toggled flag.
C21_Witness ==
    /\ opened
    /\ ~showIgnoredFiles
    /\ ui.op = "onType"
    /\ sessions /= <<>>
    /\ ~sessions[Len(sessions)].useGitIgnore

\* C22: of the tokens handed to find requests exactly the one of the most
\* recent onType call is not cancelled, and the token of the first
\* cancelIndicator is cancelled once a search has started; so each request
\* is issued with a token that is not cancelled.
C22_OnlyLatestTokenLive ==
    sessions /= <<>>
      => /\ initialToken
         /\ \A n \in DOMAIN sessions :
               sessions[n].cancelled <=> n < Len(sessions)

\* A second search was started while the first one's request is in flight.
C22_Witness ==
    /\ Len(sessions) = 2
    /\ sessions[1].pc = "finding"
    /\ sessions[1].cancelled
    /\ sessions[2].pc = "finding"
    /\ ~sessions[2].cancelled

\* C26: whenever the picker is closed, showIgnoredFiles is true.
C26_ClosedPickerShowsIgnored == ~opened => showIgnoredFiles

\* The picker has been closed after a search with the toggled flag.
C26_Witness ==
    /\ ~opened
    /\ ui.op = "onClose"
    /\ showIgnoredFiles
    /\ \E n \in DOMAIN sessions : ~sessions[n].useGitIgnore

\* The most recent search has ended: the acceptor has been called with the
\* items of all the uris proposed, or the find request was rejected.
LatestSettled ==
    LET n == Len(sessions) IN
    /\ sessions[n].pc \in {"accepted", "rejected"}
    /\ sessions[n].awaiting = {}

\* C27: with a root, whenever a search is started the most recent search
\* is accepted later on, once its find request has resolved and its items
\* are built and no keystroke has started another one; the acceptor is
\* called once: an accepted session is not accepted again.
C27_LatestSearchIsAccepted ==
    /\ []<>(sessions = <<>> \/ LatestSettled)
    /\ [][\A n \in DOMAIN sessions :
             sessions[n].pc = "accepted"
               => /\ sessions'[n].pc = "accepted"
                  /\ sessions'[n].proposed = sessions[n].proposed
         ]_vars

\* The only search has been accepted with the items of two uris.
C27_Witness ==
    /\ wsRoot = RootUri
    /\ Len(sessions) = 1
    /\ sessions[1].pc = "accepted"
    /\ Cardinality(sessions[1].proposed) = 2
    /\ sessions[1].awaiting = {}
    /\ shown = 1

(***************************************************************************)
(* DocumentWatcher                                                         *)
(***************************************************************************)
\* JavaScript's !property
Falsy(property) ==
    \/ property.type = "undefined"
    \/ property.type = "boolean" /\ ~property.bool
    \/ property.type = "number" /\ property.num = 0
    \/ property.type = "string" /\ property.str = ""

\* isSet without the test for 'unset'.
isSet_IgnoresUnset(property) == ~Falsy(property)

\* isSet(property): determines whether property is set.
isSet(property) ==
    IF Falsy(property) \/ property = Str("unset") THEN FALSE ELSE TRUE

\* isNumber(value) of util
isNumber(property) == property.type = "number"

\* The editor and its text model, as the ensure* methods change them.
Editor ==
    [lines |-> lines, cursor |-> cursor, insertSpaces |-> insertSpaces,
     tabSize |-> tabSize, eol |-> eol, calls |-> calls,
     commands |-> commands, edits |-> edits]

\* A method is entered.
Enter(ed, method) == [ed EXCEPT !.calls = Append(ed.calls, method)]

\* ensureIndentStyle(editor, properties)
ensureIndentStyle(ed, props) ==
    LET e == Enter(ed, "ensureIndentStyle") IN
    IF props.indent_style = Str("space")
    THEN [e EXCEPT !.insertSpaces = TRUE]
    ELSE IF props.indent_style = Str("tab")
    THEN [e EXCEPT !.insertSpaces = FALSE]
    ELSE e

\* ensureTabWidth(editor, properties)
ensureTabWidth(ed, props) ==
    LET e == Enter(ed, "ensureTabWidth") IN
    IF isNumber(props.tab_width)
    THEN [e EXCEPT !.tabSize = props.tab_width.num]
    ELSE e

\* ensureIndentSize that falls back to tab_width without testing it.
ensureIndentSize_AlwaysTabWidth(ed, props) ==
    LET e == Enter(ed, "ensureIndentSize") IN
    IF props.indent_size = Str("tab")
    THEN ensureTabWidth(e, props)
    ELSE IF isNumber(props.indent_size)
    THEN [e EXCEPT !.tabSize = props.indent_size.num]
    ELSE e

\* ensureIndentSize(editor, properties)
ensureIndentSize(ed, props) ==
    LET e == Enter(ed, "ensureIndentSize") IN
    IF props.indent_size = Str("tab")
    THEN IF isSet(props.tab_width) THEN ensureTabWidth(e, props) ELSE e
    ELSE IF isNumber(props.indent_size)
    THEN [e EXCEPT !.tabSize = props.indent_size.num]
    ELSE e

\* ensureEndOfLine(editor, properties)
ensureEndOfLine(ed, props) ==
    LET e == Enter(ed, "ensureEndOfLine") IN
    IF props.end_of_line = Str("lf")
    THEN [e EXCEPT !.eol = "LF"]
    ELSE IF props.end_of_line = Str("crlf")
    THEN [e EXCEPT !.eol = "CRLF"]
    ELSE e

\* String.prototype.trimRight on a line of characters.
RECURSIVE trimRight(_)
trimRight(line) ==
    IF line /= <<>> /\ line[Len(line)] = " "
    THEN trimRight(SubSeq(line, 1, Len(line) - 1))
    ELSE line

\* The command monaco.editor.action.trimTrailingWhitespace on the model:
\* every line loses its trailing whitespace, and a cursor behind the new
\* end of its line moves to that end.
trimTrailingWhitespaceCommand(ed) ==
    LET trimmed == [i \in DOMAIN ed.lines |-> trimRight(ed.lines[i])]
        last == Len(trimmed[ed.cursor.lineNumber]) + 1
    IN [ed EXCEPT
           !.lines = trimmed,
           !.cursor.column =
               IF ed.cursor.column > last THEN last ELSE ed.cursor.column,
           !.commands =
               Append(ed.commands,
                      "monaco.editor.action.trimTrailingWhitespace")]

\* ensureTrimTrailingWhitespace(editor, properties)
ensureTrimTrailingWhitespace(ed, props) ==
    LET e == Enter(ed, "ensureTrimTrailingWhitespace") IN
    IF props.trim_trailing_whitespace = Bool(TRUE) /\ isCurrent
    THEN trimTrailingWhitespaceCommand(e)
    ELSE e

\* LINE_ENDING
LineEnding(props) ==
    IF props.end_of_line = Str("crlf") THEN "\r\n" ELSE "\n"

\* The position the editor makes of one it is given: inside the document.
validatePosition(ls, position) ==
    LET lineNumber == IF position.lineNumber > Len(ls)
                      THEN Len(ls) ELSE position.lineNumber
        last == Len(ls[lineNumber]) + 1
    IN [lineNumber |-> lineNumber,
        column |-> IF position.column > last THEN last ELSE position.column]

\* textEditorModel.applyEdits([edit]) for an edit that inserts one line
\* ending at (lineNumber, column): the line is split there, and a cursor
\* at or behind that place goes to the new line with its text.
applyEdits(ed, lineNumber, column, text) ==
    LET line == ed.lines[lineNumber]
        head == SubSeq(line, 1, column - 1)
        tail == SubSeq(line, column, Len(line))
    IN [ed EXCEPT
           !.lines = SubSeq(ed.lines, 1, lineNumber - 1)
                     \o <<head, tail>>
                     \o SubSeq(ed.lines, lineNumber + 1, Len(ed.lines)),
           !.cursor =
               IF ed.cursor.lineNumber = lineNumber
                  /\ ed.cursor.column >= column
               THEN [lineNumber |-> lineNumber + 1,
                     column |-> ed.cursor.column - column + 1]
               ELSE IF ed.cursor.lineNumber > lineNumber
               THEN [ed.cursor EXCEPT !.lineNumber = @ + 1]
               ELSE ed.cursor,
           !.edits = Append(ed.edits,
                            [lineNumber |-> lineNumber, column |-> column,
                             text |-> text])]

\* ensureEndsWithNewLine(editor, properties)
ensureEndsWithNewLine(ed, props) ==
    LET e == Enter(ed, "ensureEndsWithNewLine") IN
    IF props.insert_final_newline = Bool(TRUE)
    THEN LET lineCount == Len(e.lines)
             content == e.lines[lineCount]
             lineContent ==
                 IF props.trim_trailing_whitespace = Bool(TRUE)
                 THEN trimRight(content)
                 ELSE content
         IN IF lineContent /= <<>>
            THEN LET saved == e.cursor
                     edited == applyEdits(e, lineCount, Len(lineContent) + 1,
                                          LineEnding(props))
                 IN [edited EXCEPT
                        !.cursor = validatePosition(edited.lines, saved)]
            ELSE e
    ELSE e

\* applyProperties(properties, editor)
applyProperties(props, ed) ==
    LET e1 == IF isSet(props.indent_style)
              THEN ensureIndentStyle(ed, props) ELSE ed
        e2 == IF isSet(props.indent_size)
              THEN ensureIndentSize(e1, props) ELSE e1
        e3 == IF isSet(props.end_of_line)
              THEN ensureEndOfLine(e2, props) ELSE e2
        e4 == IF isSet(props.trim_trailing_whitespace)
              THEN ensureTrimTrailingWhitespace(e3, props) ELSE e3
        e5 == IF isSet(props.insert_final_newline)
              THEN ensureEndsWithNewLine(e4, props) ELSE e4
    IN e5

\* The rule sets applied: each property absent, 'unset' or a value.
PropsSet ==
    [indent_style : {Undefined, Str("unset"), Str("space"), Str("tab")},
     indent_size : {Undefined, Str("unset"), Str("tab"), Num(2)},
     tab_width : {Undefined, Str("unset"), Num(8)},
     end_of_line : {Undefined, Str("unset"), Str("lf"), Str("crlf")},
     trim_trailing_whitespace :
         {Undefined, Str("unset"), Bool(TRUE), Bool(FALSE)},
     insert_final_newline :
         {Undefined, Str("unset"), Bool(TRUE), Bool(FALSE)}]

\* The documents they are applied to: an empty last line, a last line with
\* text, a last line with trailing whitespace.
ApplyDocs == {<< <<"x">>, <<>> >>, << <<"x">> >>, << <<"x", " ">> >>}

\* documentWatcher.applyProperties(properties, editor), with the editor's
\* state before and after it.
ApplyProperties ==
    /\ edPc = "start"
    /\ edPc' = "done"
    /\ LET e == applyProperties(properties, Editor) IN
        /\ lines' = e.lines
        /\ cursor' = e.cursor
        /\ insertSpaces' = e.insertSpaces
        /\ tabSize' = e.tabSize
        /\ eol' = e.eol
        /\ calls' = e.calls
        /\ commands' = e.commands
        /\ edits' = e.edits
    /\ UNCHANGED <<properties, isCurrent, watcherVars, cliVars, serverVars,
                   quickVars>>

ApplyInit ==
    /\ cliArgs = [logLevel |-> Undef, file |-> NoFile]
    /\ CliConstructed
    /\ ServerIdle
    /\ QuickConstructed
    /\ properties \in PropsSet
    /\ lines \in ApplyDocs
    /\ cursor = [lineNumber |-> 1, column |-> 1]
    /\ insertSpaces \in BOOLEAN
    /\ tabSize = 4
    /\ eol \in {"LF", "CRLF"}
    /\ isCurrent \in BOOLEAN
    /\ edPc = "start"
    /\ calls = <<>>
    /\ commands = <<>>
    /\ edits = <<>>
    /\ WatcherIdle

ApplyNext == ApplyProperties

SpecApply == ApplyInit /\ [][ApplyNext]_vars

(***************************************************************************)
(* Properties of DocumentWatcher.applyProperties, checked under SpecApply. *)
(***************************************************************************)
\* A value that is present, truthy and not 'unset'.
ValueIsSet(v) ==
    /\ v.type /= "undefined"
    /\ v \notin {Bool(FALSE), Num(0), Str(""), Str("unset")}

Invoked(cs, method) == \E i \in DOMAIN cs : cs[i] = method

\* C6: applyProperties runs the method of indent_style, indent_size,
\* end_of_line, trim_trailing_whitespace and insert_final_newline exactly
\* when the property's value is set; a property that is absent or 'unset'
\* leaves its part of the editor as it was.
C6_HandlersRunIffSet ==
    [][edPc' = "done" =>
        /\ Invoked(calls', "ensureIndentStyle")
             <=> ValueIsSet(properties.indent_style)
        /\ Invoked(calls', "ensureIndentSize")
             <=> ValueIsSet(properties.indent_size)
        /\ Invoked(calls', "ensureEndOfLine")
             <=> ValueIsSet(properties.end_of_line)
        /\ Invoked(calls', "ensureTrimTrailingWhitespace")
             <=> ValueIsSet(properties.trim_trailing_whitespace)
        /\ Invoked(calls', "ensureEndsWithNewLine")
             <=> ValueIsSet(properties.insert_final_newline)
        /\ ~ValueIsSet(properties.indent_style)
             => insertSpaces' = insertSpaces
        /\ ~ValueIsSet(properties.indent_size) => tabSize' = tabSize
        /\ ~ValueIsSet(properties.end_of_line) => eol' = eol
        /\ ~ValueIsSet(properties.trim_trailing_whitespace)
             => commands' = <<>>
        /\ ~ValueIsSet(properties.insert_final_newline) => edits' = <<>>
        /\ (\A p \in DOMAIN properties : ~ValueIsSet(properties[p]))
             => /\ calls' = <<>>
                /\ <<lines, cursor, insertSpaces, tabSize, eol>>' =
                       <<lines, cursor, insertSpaces, tabSize, eol>>
      ]_vars

\* A rule set with indent_style 'unset' and an indent_size has been
\* applied to an editor that inserts tabs: the size is set, the style is
\* not touched.
C6_Witness ==
    /\ edPc = "done"
    /\ properties.indent_style = Str("unset")
    /\ properties.indent_size = Num(2)
    /\ properties.insert_final_newline = Str("unset")
    /\ ~insertSpaces
    /\ tabSize = 2
    /\ calls = <<"ensureIndentSize">>
    /\ edits = <<>>

\* C15: ensureTabWidth runs exactly when indent_size is 'tab' and
\* tab_width is set, and then a numeric tab_width is the tab size; a
\* numeric indent_size is the tab size itself; with indent_size not set, or
\* 'tab' without a tab_width, the tab size stays as it was.
C15_TabWidthOnlyAsFallback ==
    [][edPc' = "done" =>
        LET size == properties.indent_size
            width == properties.tab_width
        IN /\ Invoked(calls', "ensureTabWidth")
                <=> (size = Str("tab") /\ ValueIsSet(width))
           /\ (size = Str("tab") /\ ValueIsSet(width)
                 /\ width.type = "number")
                => tabSize' = width.num
           /\ (ValueIsSet(size) /\ size.type = "number")
                => tabSize' = size.num
           /\ (~ValueIsSet(size)
                 \/ (size = Str("tab") /\ ~ValueIsSet(width)))
                => tabSize' = tabSize
      ]_vars

\* indent_size 'tab' with a tab_width of 8 has been applied.
C15_Witness ==
    /\ edPc = "done"
    /\ properties.indent_size = Str("tab")
    /\ properties.tab_width = Num(8)
    /\ Invoked(calls, "ensureTabWidth")
    /\ tabSize = 8

(***************************************************************************)
(* DocumentWatcher with one MonacoEditor: the editor is created, becomes   *)
(* or stops being the current editor, its getConfig requests settle, the   *)
(* user types, and the document is saved.                                  *)
(***************************************************************************)
\* Most getConfig requests in flight.
MaxPending == 2
\* Most characters, and most lines, of a document the user types into.
MaxText == 2

\* editor.uri.path.toString()
FileUri == "/ws/a.ts"

\* The rule sets getConfig resolves to for the file.
EditorRuleSets ==
    [indent_style : {Str("tab")},
     indent_size : {Num(2)},
     tab_width : {Undefined},
     end_of_line : {Str("crlf")},
     trim_trailing_whitespace : {Bool(TRUE), Bool(FALSE)},
     insert_final_newline : {Bool(TRUE), Undefined}]

\* The editor at the start of a handler, with nothing recorded yet.
Quiet == [Editor EXCEPT !.calls = <<>>, !.commands = <<>>, !.edits = <<>>]

\* The editor is left as e.
Becomes(e) ==
    /\ lines' = e.lines
    /\ cursor' = e.cursor
    /\ insertSpaces' = e.insertSpaces
    /\ tabSize' = e.tabSize
    /\ eol' = e.eol
    /\ calls' = e.calls
    /\ commands' = e.commands
    /\ edits' = e.edits

\* refreshProperties(editor), up to the getConfig request it sends.
refreshProperties ==
    /\ pending < MaxPending
    /\ pending' = pending + 1

\* The onCreated listener: addOnSaveHandler(e), refreshProperties(e.editor).
onCreated ==
    /\ ~created
    /\ created' = TRUE
    /\ refreshProperties
    /\ edPc' = "onCreated"
    /\ Becomes(Quiet)
    /\ UNCHANGED <<properties, isCurrent, configurations, hasRoot, errors,
                   cliVars, serverVars, quickVars>>

\* The onCurrentEditorChanged listener, for this editor, another editor
\* (whose request and rule set are its own) or no editor.
onCurrentEditorChanged(e) ==
    /\ e = "this" => created
    /\ isCurrent' = (e = "this")
    /\ IF e = "this" THEN refreshProperties ELSE UNCHANGED pending
    /\ edPc' = "onCurrentEditorChanged"
    /\ Becomes(Quiet)
    /\ UNCHANGED <<properties, configurations, hasRoot, created, errors,
                   cliVars, serverVars, quickVars>>

\* getConfig(uri) resolves: the callback of refreshProperties.
getConfigResolved(props) ==
    /\ pending > 0
    /\ hasRoot
    /\ pending' = pending - 1
    /\ configurations' = Put(configurations, FileUri, props)
    /\ properties' = props
    /\ Becomes(applyProperties(props, Quiet))
    /\ edPc' = "getConfig.resolved"
    /\ UNCHANGED <<isCurrent, hasRoot, created, errors, cliVars, serverVars,
                   quickVars>>

\* getConfig(uri) rejects, without a root or when the file cannot be
\* parsed: refreshProperties has no handler for it.
getConfigRejected ==
    /\ pending > 0
    /\ pending' = pending - 1
    /\ errors' = errors \cup {"unhandled rejection"}
    /\ edPc' = "getConfig.rejected"
    /\ Becomes(Quiet)
    /\ UNCHANGED <<properties, isCurrent, configurations, hasRoot, created,
                   cliVars, serverVars, quickVars>>

\* The pre-save handler run with all five rules.
willSave_ApplyAll(ed, props) == applyProperties(props, ed)

\* The body of the onWillSaveModel listener for the cached properties.
willSave(ed, props) ==
    LET e1 == IF isSet(props.trim_trailing_whitespace)
              THEN ensureTrimTrailingWhitespace(ed, props) ELSE ed
        e2 == IF isSet(props.insert_final_newline)
              THEN ensureEndsWithNewLine(e1, props) ELSE e1
    IN e2

\* The onWillSaveModel listener: reading a property of the undefined
\* entry of a file without cached properties throws.
onWillSaveModel ==
    /\ created
    /\ edPc' = "onWillSaveModel"
    /\ IF FileUri \in DOMAIN configurations
       THEN /\ Becomes(willSave(Quiet, configurations[FileUri]))
            /\ properties' = configurations[FileUri]
            /\ UNCHANGED errors
       ELSE /\ Becomes(Quiet)
            /\ errors' = errors \cup {"TypeError"}
            /\ UNCHANGED properties
    /\ UNCHANGED <<isCurrent, configurations, pending, hasRoot, created,
                   cliVars, serverVars, quickVars>>

\* The characters of the document's lines.
RECURSIVE TextLength(_)
TextLength(ls) ==
    IF ls = <<>> THEN 0 ELSE Len(ls[1]) + TextLength(SubSeq(ls, 2, Len(ls)))

\* The user types a character at the end of the document.
type(ch) ==
    /\ created
    /\ Len(lines) <= MaxText
    /\ TextLength(lines) < MaxText
    /\ lines' = [lines EXCEPT ![Len(lines)] = Append(@, ch)]
    /\ cursor' = [lineNumber |-> Len(lines),
                  column |-> Len(lines[Len(lines)]) + 2]
    /\ edPc' = "type"
    /\ calls' = <<>>
    /\ commands' = <<>>
    /\ edits' = <<>>
    /\ UNCHANGED <<properties, insertSpaces, tabSize, eol, isCurrent,
                   watcherVars, cliVars, serverVars, quickVars>>

EditorInit ==
    /\ cliArgs = [logLevel |-> Undef, file |-> NoFile]
    /\ CliConstructed
    /\ ServerIdle
    /\ QuickConstructed
    /\ properties =
         [indent_style |-> Undefined, indent_size |-> Undefined,
          tab_width |-> Undefined, end_of_line |-> Undefined,
          trim_trailing_whitespace |-> Undefined,
          insert_final_newline |-> Undefined]
    /\ lines = << <<>> >>
    /\ cursor = [lineNumber |-> 1, column |-> 1]
    /\ insertSpaces = TRUE
    /\ tabSize = 4
    /\ eol = "LF"
    /\ isCurrent = FALSE
    /\ edPc = "start"
    /\ calls = <<>>
    /\ commands = <<>>
    /\ edits = <<>>
    /\ configurations = NoConfigurations
    /\ pending = 0
    /\ hasRoot \in BOOLEAN
    /\ created = FALSE
    /\ errors = {}

EditorNext ==
    \/ onCreated
    \/ \E e \in {"this", "other", Undef} : onCurrentEditorChanged(e)
    \/ \E props \in EditorRuleSets : getConfigResolved(props)
    \/ getConfigRejected
    \/ onWillSaveModel
    \/ \E ch \in {"x", " "} : type(ch)

SpecEditor == EditorInit /\ [][EditorNext]_vars

(***************************************************************************)
(* Properties of the DocumentWatcher's listeners, checked under SpecEditor.*)
(***************************************************************************)
\* C16: the pre-save handler sends no getConfig request and leaves the
\* cache, the indent style, the tab size and the end of line as they are;
\* it runs no method but those of trim_trailing_whitespace and
\* insert_final_newline, each exactly when the rule set cached for the
\* file sets its property, with that rule set.
C16_SaveReappliesTwoCachedRules ==
    [][edPc' = "onWillSaveModel" =>
        /\ pending' = pending
        /\ configurations' = configurations
        /\ <<insertSpaces, tabSize, eol>>' = <<insertSpaces, tabSize, eol>>
        /\ \A i \in DOMAIN calls' :
              calls'[i] \in {"ensureTrimTrailingWhitespace",
                             "ensureEndsWithNewLine"}
        /\ FileUri \in DOMAIN configurations
             => LET cached == configurations[FileUri] IN
                /\ Invoked(calls', "ensureTrimTrailingWhitespace")
                     <=> ValueIsSet(cached.trim_trailing_whitespace)
                /\ Invoked(calls', "ensureEndsWithNewLine")
                     <=> ValueIsSet(cached.insert_final_newline)
                /\ commands' /= <<>>
                     => cached.trim_trailing_whitespace = Bool(TRUE)
                /\ edits' /= <<>>
                     => cached.insert_final_newline = Bool(TRUE)
      ]_vars

\* A save has trimmed the document and ended it with a line ending, from
\* the cached rule set, with no request in flight; the options are those
\* the rule set gave the editor when it was applied.
C16_Witness ==
    /\ edPc = "onWillSaveModel"
    /\ FileUri \in DOMAIN configurations
    /\ pending = 0
    /\ commands /= <<>>
    /\ Len(edits) = 1
    /\ calls = <<"ensureTrimTrailingWhitespace", "ensureEndsWithNewLine">>
    /\ lines = << <<"x">>, <<>> >>
    /\ tabSize = 2
    /\ ~insertSpaces
    /\ eol = "CRLF"

\* C25: the pre-save handler never throws, whenever the save comes; a save
\* before the file's rule set is cached makes no edit and raises nothing.
C25_SaveNeverRaises ==
    edPc = "onWillSaveModel"
      => /\ "TypeError" \notin errors
         /\ FileUri \notin DOMAIN configurations
              => edits = <<>> /\ commands = <<>>

\* C19: without a workspace root, creating or focusing the editor and then
\* saving changes nothing in the editor model and raises no error: no
\* exception in the pre-save handler, no rejection left unhandled.
C19_NoRootIsSilent ==
    ~hasRoot
      => /\ errors = {}
         /\ edits = <<>>
         /\ commands = <<>>
         /\ insertSpaces = TRUE
         /\ tabSize = 4
         /\ eol = "LF"

(***************************************************************************)
(* DocumentWatcher.ensureEndsWithNewLine on its own, as the pre-save       *)
(* handler and applyProperties call it for an editor that may not be the   *)
(* current one: the documents, cursors and rule sets it is called with.    *)
(***************************************************************************)
\* Longest line of a document.
MaxLineLen == 2

Chars == {"x", " "}
DocLines == UNION {[1..n -> Chars] : n \in 0..MaxLineLen}

\* Documents of one line, and of two lines after a line of text or an
\* empty line.
NewLineDocs ==
    {<<l>> : l \in DocLines}
      \cup {<<h, l>> : h \in {<<>>, <<"x">>}, l \in DocLines}

\* The positions of a document.
Positions(ls) ==
    {[lineNumber |-> n, column |-> c] :
        n \in DOMAIN ls, c \in 1..(MaxLineLen + 1)}
      \cap {validatePosition(ls, [lineNumber |-> n, column |-> c]) :
              n \in DOMAIN ls, c \in 1..(MaxLineLen + 1)}

\* The rule sets: what ensureEndsWithNewLine reads of them.
NewLineProps ==
    [indent_style : {Undefined},
     indent_size : {Undefined},
     tab_width : {Undefined},
     end_of_line : {Undefined, Str("lf"), Str("crlf")},
     trim_trailing_whitespace : {Undefined, Bool(TRUE), Bool(FALSE)},
     insert_final_newline :
         {Undefined, Str("unset"), Bool(TRUE), Bool(FALSE)}]

\* documentWatcher.ensureEndsWithNewLine(editor, properties)
EnsureEndsWithNewLine ==
    /\ edPc = "start"
    /\ edPc' = "done"
    /\ LET e == ensureEndsWithNewLine(Editor, properties) IN
        /\ lines' = e.lines
        /\ cursor' = e.cursor
        /\ insertSpaces' = e.insertSpaces
        /\ tabSize' = e.tabSize
        /\ eol' = e.eol
        /\ calls' = e.calls
        /\ commands' = e.commands
        /\ edits' = e.edits
    /\ UNCHANGED <<properties, isCurrent, watcherVars, cliVars, serverVars,
                   quickVars>>

NewLineInit ==
    /\ cliArgs = [logLevel |-> Undef, file |-> NoFile]
    /\ CliConstructed
    /\ ServerIdle
    /\ QuickConstructed
    /\ properties \in NewLineProps
    /\ lines \in NewLineDocs
    /\ cursor \in Positions(lines)
    /\ insertSpaces = TRUE
    /\ tabSize = 4
    /\ eol = "LF"
    /\ isCurrent = FALSE
    /\ edPc = "start"
    /\ calls = <<>>
    /\ commands = <<>>
    /\ edits = <<>>
    /\ WatcherIdle

NewLineNext == EnsureEndsWithNewLine

SpecNewLine == NewLineInit /\ [][NewLineNext]_vars

\* C17: with insert_final_newline true and a last line that is not empty
\* (after trimming its trailing whitespace if trim_trailing_whitespace is
\* true too), one edit appends one line ending, CRLF for end_of_line
\* 'crlf' and LF otherwise; in every other case there is no edit; the
\* cursor is where it was in all cases.
C17_AppendsLineEnding ==
    [][edPc' = "done" =>
        LET count == Len(lines)
            last == lines[count]
            trimmed == IF properties.trim_trailing_whitespace = Bool(TRUE)
                       THEN trimRight(last) ELSE last
            ending == IF properties.end_of_line = Str("crlf")
                      THEN "\r\n" ELSE "\n"
        IN /\ cursor' = cursor
           /\ IF properties.insert_final_newline = Bool(TRUE)
                 /\ trimmed /= <<>>
              THEN /\ Len(edits') = 1
                   /\ edits'[1].text = ending
                   /\ lines' \in {Append(lines, <<>>),
                                  SubSeq(lines, 1, count - 1)
                                    \o <<trimmed, <<>> >>}
              ELSE /\ edits' = <<>>
                   /\ lines' = lines
      ]_vars

\* C18: after ensureEndsWithNewLine has run with insert_final_newline true
\* the document's last line is empty, whatever the document,
\* trim_trailing_whitespace and end_of_line are.
C18_EndsWithNewLine ==
    (edPc = "done" /\ properties.insert_final_newline = Bool(TRUE))
      => lines[Len(lines)] = <<>>

====
